---- MODULE Spec2Model ----
(***************************************************************************)
(* Model of generate_indexes.py: the S3 index generator of                 *)
(* FloodScienceData-CloudFront.  Keys and prefixes are sequences of        *)
(* one-character strings, so that startswith / endswith / split / strip    *)
(* are computed character by character as the Python code computes them.   *)
(* The bucket is a function from keys to stored objects.                   *)
(***************************************************************************)
EXTENDS Naturals, Integers, Sequences, FiniteSets, TLC

(* ---------- bounds ---------- *)
\* number of successive invocations of main on the same bucket
MaxRuns == 2
\* largest number of common prefixes one listing answers in the traversal-only
\* specification SpecWalk
MaxDeg == 2
\* longest prefix given to crumbs in the specification SpecCrumbs
MaxLen == 4
\* largest number of files in a listing given to the renderer in SpecRender
MaxFiles == 2
\* largest number of prefixes a traversal over client answers is followed for
MaxYield == 4

(* ---------- state variables ---------- *)
VARIABLES
  bucket,    \* the bucket: key -> stored object
  bucket0,   \* the bucket as it was when the current run started
  run,       \* number of the current invocation of main
  args,      \* parsed command line: prefix, full, with_search
  pc,        \* position of main
  walk,      \* frame of the walk_prefixes generator main iterates over
  cur,       \* pref of the main loop
  listing,   \* subs, files of the main loop
  updated,   \* the list "updated" of main
  swalk,     \* frame of the walk_prefixes generator of build_search_index
  scur,      \* pref of build_search_index
  recs,      \* recs of build_search_index
  puts,      \* put_object calls that succeeded in this run, in order
  ncalls,    \* listing and upload calls issued in this run
  failed,    \* a listing or upload call of this run has raised
  hb, gbl,   \* answers of head_bucket and get_bucket_location
  region,    \* result of discover_bucket_region
  lookups,   \* lookups discover_bucket_region has made, in order
  resp,      \* SpecWalk: the common prefixes the client answers per prefix
  prev,      \* args and put_object calls of the previous finished run
  inp, out   \* argument and result of a helper applied on its own

(* ---------- string literals of the program ---------- *)
SLASH == <<"/">>
INDEX_HTML == <<"i","n","d","e","x",".","h","t","m","l">>
SEARCH_INDEX_JSON == <<"s","e","a","r","c","h","-","i","n","d","e","x",".","j","s","o","n">>
\* the search page uploaded next to the JSON index, at 'search.html'
SearchHtmlAtRoot == <<"s","e","a","r","c","h",".","h","t","m","l">>

SEARCH_INDEX_HTML == <<"s","e","a","r","c","h","/">> \o INDEX_HTML
excluded_folder == <<"t","w","d","b","l","o","g","o">>
HOME == <<"H","o","m","e">>
DEFAULT_REGION == "us-east-1"
HTML_CTYPE == "text/html; charset=utf-8"
JSON_CTYPE == "application/json; charset=utf-8"
\* Cache-Control values 'public, max-age=60' and 'public, max-age=300'
HTML_MAX_AGE == 60
JSON_MAX_AGE == 300
HTML_CACHE == [directive |-> "public", max_age |-> HTML_MAX_AGE]
\* the search index uploaded without "cache=", with put_obj's default
JsonCacheDefault == HTML_CACHE
JSON_CACHE == [directive |-> "public", max_age |-> JSON_MAX_AGE]
NO_CACHE == [directive |-> "", max_age |-> 0]

(* ---------- objects a user has stored in the bucket ---------- *)
K_af == <<"a","/","f">>
K_abmark == <<"a","/","b","/">>
K_myindex == <<"m","y">> \o INDEX_HTML
K_logo == excluded_folder \o <<"/","l">>
K_logosub == excluded_folder \o <<"/","s","/","m">>
K_alogo == <<"a","/">> \o excluded_folder \o <<"/","n">>
UserKeys == {K_af, K_abmark, K_myindex, K_logo, K_logosub, K_alogo}
UserObject == [body |-> [type |-> "data"], ctype |-> "binary/octet-stream", cache |-> NO_CACHE]

\* values of --prefix
ROOT == << >>
StartPrefixes == {ROOT, <<"a","/">>, <<"a">>}

(* ---------- Python string operations ---------- *)
\* characters in code-point order (str comparison is by code point)
Alphabet ==
  <<" ", "#", "%", "&", "-", ".", "/", "0", "1", "2", "3", "4", "5", "6", "7",
    "8", "9", ":", "A", "B", "C", "D", "E", "F", "G", "H", "I", "J", "K", "L",
    "M", "N", "O", "P", "Q", "R", "S", "T", "U", "V", "W", "X", "Y", "Z", "_",
    "a", "b", "c", "d", "e", "f", "g", "h", "i", "j", "k", "l", "m", "n", "o",
    "p", "q", "r", "s", "t", "u", "v", "w", "x", "y", "z", "~">>
CodeTable ==
  [c \in { Alphabet[i] : i \in 1..Len(Alphabet) } |->
     CHOOSE i \in 1..Len(Alphabet) : Alphabet[i] = c]
Code(c) == CodeTable[c]

RECURSIVE StrLess(_, _)
StrLess(a, b) ==
  IF a = << >> THEN b # << >>
  ELSE IF b = << >> THEN FALSE
  ELSE IF Head(a) = Head(b) THEN StrLess(Tail(a), Tail(b))
  ELSE Code(Head(a)) < Code(Head(b))

RECURSIVE sorted(_)
sorted(S) ==
  IF S = {} THEN << >>
  ELSE LET m == CHOOSE x \in S : \A y \in S \ {x} : StrLess(x, y)
       IN <<m>> \o sorted(S \ {m})

startswith(k, p) == Len(k) >= Len(p) /\ SubSeq(k, 1, Len(p)) = p
endswith(k, s) == Len(k) >= Len(s) /\ SubSeq(k, Len(k) - Len(s) + 1, Len(k)) = s
HasSlash(s) == \E i \in 1..Len(s) : s[i] = "/"

RECURSIVE lstrip(_)
lstrip(s) == IF s # << >> /\ Head(s) = "/" THEN lstrip(Tail(s)) ELSE s
RECURSIVE rstrip(_)
rstrip(s) == IF s # << >> /\ s[Len(s)] = "/" THEN rstrip(SubSeq(s, 1, Len(s) - 1)) ELSE s
strip(s) == rstrip(lstrip(s))

\* s.split('/')[-1]
LastSegment(s) ==
  IF HasSlash(s)
  THEN LET i == CHOOSE j \in 1..Len(s) : s[j] = "/" /\ \A l \in (j+1)..Len(s) : s[l] # "/"
       IN SubSeq(s, i + 1, Len(s))
  ELSE s

base_folder(pref) == LET s == strip(pref) IN IF s # << >> THEN LastSegment(s) ELSE HOME

(* ---------- list_objects_v2 with Prefix=prefix, Delimiter='/' ---------- *)
Remainder(k, p) == SubSeq(k, Len(p) + 1, Len(k))
UpToDelimiter(s) ==
  LET i == CHOOSE j \in 1..Len(s) : s[j] = "/" /\ \A l \in 1..(j-1) : s[l] # "/"
  IN SubSeq(s, 1, i)
CommonPrefixes(b, p) ==
  { p \o UpToDelimiter(Remainder(k, p)) :
      k \in { x \in DOMAIN b : startswith(x, p) /\ HasSlash(Remainder(x, p)) } }
Contents(b, p) ==
  { k \in DOMAIN b : startswith(k, p) /\ ~HasSlash(Remainder(k, p)) }

(* ---------- list_folder ---------- *)
\* the test without "or k.endswith('index.html')"
SkippedMarkersOnly(k) == endswith(k, SLASH)

Skipped(k) == endswith(k, SLASH) \/ endswith(k, INDEX_HTML)
list_folder(b, prefix) ==
  [subs |-> sorted(CommonPrefixes(b, prefix)),
   files |-> sorted({ k \in Contents(b, prefix) : ~Skipped(k) })]

(* ---------- walk_prefixes ---------- *)
\* the loop "while stack: pref = stack.pop(); if pref in seen: continue" up to
\* the next prefix that is not in seen, or to the empty stack
\* the loop without "if pref in seen: continue"
PopAny(sn, st) ==
  IF st = << >> THEN [found |-> FALSE, pref |-> << >>, stack |-> << >>]
  ELSE [found |-> TRUE, pref |-> st[Len(st)], stack |-> SubSeq(st, 1, Len(st) - 1)]

RECURSIVE PopUnseen(_, _)
PopUnseen(sn, st) ==
  IF st = << >> THEN [found |-> FALSE, pref |-> << >>, stack |-> << >>]
  ELSE LET pref == st[Len(st)]
           rest == SubSeq(st, 1, Len(st) - 1)
       IN IF pref \in sn THEN PopUnseen(sn, rest)
          ELSE [found |-> TRUE, pref |-> pref, stack |-> rest]

\* "stack = subs" in place of stack.extend(subs)
StackAssign(st, subs) == subs

\* stack.extend(subs)
StackExtend(st, subs) == st \o subs

\* the loop without "seen.add(pref)"
SeenKeep(sn, pref) == sn

\* seen.add(pref)
SeenAdd(sn, pref) == sn \cup {pref}

\* one advance of the generator to its next yield (or to its end); w is the
\* generator's frame: seen, stack, the sequence of prefixes yielded so far and
\* the sequence of prefixes it has listed so far
WalkNext(w) ==
  LET r == PopUnseen(w.seen, w.stack)
  IN IF r.found
     THEN [found |-> TRUE, pref |-> r.pref,
           w |-> [seen |-> SeenAdd(w.seen, r.pref), stack |-> r.stack,
                  yielded |-> Append(w.yielded, r.pref), listed |-> w.listed]]
     ELSE [found |-> FALSE, pref |-> << >>, w |-> [w EXCEPT !.stack = << >>]]

\* a seen-set that outlives the call (module-level, or a mutable default
\* argument) in place of the local "seen = set()"
WalkFrameSharedSeen(start) ==
  [seen |-> walk.seen, stack |-> <<start>>, yielded |-> << >>, listed |-> << >>]

\* the generator's frame when walk_prefixes is called
WalkFrame(start) ==
  [seen |-> {}, stack |-> <<start>>, yielded |-> << >>, listed |-> << >>]
NoFrame == [seen |-> {}, stack |-> << >>, yielded |-> << >>, listed |-> << >>]
\* resumption after a yield, once list_folder(pref) has answered subs
WalkResume(w, subs) ==
  WalkNext([w EXCEPT !.stack = StackExtend(w.stack, subs),
                     !.listed = Append(w.listed, w.yielded[Len(w.yielded)])])

(* ---------- rendering, records, upload ---------- *)
SeqToSet(q) == { q[i] : i \in 1..Len(q) }
NotExcluded(sf) == base_folder(sf) # excluded_folder
\* the parts of the page that depend on the listing: subfolder rows and file rows
render_index_html(prefix, subfolders, files) ==
  [type |-> "folder_page", prefix |-> prefix,
   folders |-> SelectSeq(subfolders, NotExcluded), files |-> files]
render_search_page == [type |-> "search_page"]

\* path = f'{pref}' in place of f'/{pref}'
FolderRecNoSlash(pref) ==
  [type |-> "folder", name |-> IF pref # << >> THEN base_folder(pref) ELSE HOME,
   path |-> pref]

FolderRec(pref) ==
  [type |-> "folder", name |-> IF pref # << >> THEN base_folder(pref) ELSE HOME,
   path |-> SLASH \o pref]
FileRec(key) == [type |-> "file", name |-> LastSegment(key), path |-> SLASH \o key]
\* the file loop without its "continue"
FileExcludedNever(key) == FALSE

FileExcluded(key) == startswith(key, excluded_folder \o SLASH)
RECURSIVE FileRecs(_)
FileRecs(files) ==
  IF files = << >> THEN << >>
  ELSE (IF FileExcluded(Head(files)) THEN << >> ELSE <<FileRec(Head(files))>>)
       \o FileRecs(Tail(files))

\* f'{pref}/index.html' in place of f'{pref}index.html'
IndexKeySlash(pref) == pref \o SLASH \o INDEX_HTML

\* f'{pref}index.html'
IndexKey(pref) == pref \o INDEX_HTML

\* "if args.with_search" in place of "if args.with_search or args.full"
SearchRequestedFlagOnly(a) == a.with_search

\* if args.with_search or args.full
SearchRequested(a) == a.with_search \/ a.full

put_obj(b, key, body, ctype, cache) ==
  [k \in DOMAIN b \cup {key} |->
     IF k = key THEN [body |-> body, ctype |-> ctype, cache |-> cache] ELSE b[k]]

(* ---------- state ---------- *)
vars == <<bucket, bucket0, run, args, pc, walk, cur, listing, updated, swalk,
          scur, recs, puts, ncalls, failed, hb, gbl, region, lookups, resp,
          prev, inp, out>>
regionVars == <<hb, gbl, region, lookups>>
loopVars == <<walk, cur, listing, updated>>
searchVars == <<swalk, scur, recs>>

Args == [prefix : StartPrefixes, full : BOOLEAN, with_search : BOOLEAN]
NoListing == [subs |-> << >>, files |-> << >>]
NoOutcome == [kind |-> "none", region |-> ""]
NoPrev == [args |-> [prefix |-> ROOT, full |-> FALSE, with_search |-> FALSE],
           puts |-> << >>]

\* main is started on a bucket holding some of the keys of Keys
InitMain(Keys) ==
  /\ bucket \in { [k \in S |-> UserObject] : S \in SUBSET Keys }
  /\ bucket0 = bucket
  /\ run = 1
  /\ args \in Args
  /\ pc = "main"
  /\ walk = NoFrame /\ cur = << >> /\ listing = NoListing /\ updated = << >>
  /\ swalk = NoFrame /\ scur = << >> /\ recs = << >>
  /\ puts = << >> /\ ncalls = 0 /\ failed = FALSE
  /\ hb = NoOutcome /\ gbl = NoOutcome /\ region = "" /\ lookups = << >>
  /\ resp = << >>
  /\ prev = NoPrev /\ inp = << >> /\ out = << >>

Init == InitMain(UserKeys)

(* ---------- main ---------- *)
\* build_search_index between two storage calls: g is the generator's answer
\* to "for pref in walk_prefixes(...)", rs the records so far
SearchStep(g, rs) ==
  /\ swalk' = g.w
  /\ scur' = g.pref
  /\ IF ~g.found THEN pc' = "put_json" /\ recs' = rs
     ELSE IF base_folder(g.pref) = excluded_folder
          THEN pc' = "search_walk_list" /\ recs' = rs
          ELSE pc' = "search_list" /\ recs' = Append(rs, FolderRec(g.pref))

\* the statements after the for loop of main
AfterLoop ==
  IF SearchRequested(args)
  THEN SearchStep(WalkNext(WalkFrame(args.prefix)), << >>)
  ELSE pc' = "done" /\ UNCHANGED searchVars

\* a handler that swallows the exception and lets main issue the call again
RaiseRetry ==
  /\ pc' = pc
  /\ failed' = TRUE
  /\ ncalls' = ncalls + 1
  /\ UNCHANGED <<bucket, bucket0, run, args, loopVars, searchVars, puts, regionVars, resp, prev, inp, out>>

\* an exception of a storage call: nothing in main catches it
Raise ==
  /\ pc' = "aborted"
  /\ failed' = TRUE
  /\ ncalls' = ncalls + 1
  /\ UNCHANGED <<bucket, bucket0, run, args, loopVars, searchVars, puts, regionVars, resp, prev, inp, out>>

\* prefixes = walk_prefixes(...) if args.full else [args.prefix]; first iteration
MainStart ==
  /\ pc = "main"
  /\ IF args.full
     THEN LET g == WalkNext(WalkFrame(args.prefix))
          IN walk' = g.w /\ cur' = g.pref
     ELSE walk' = walk /\ cur' = args.prefix
  /\ pc' = "list"
  /\ UNCHANGED <<bucket, bucket0, run, args, listing, updated, searchVars, puts,
                 ncalls, regionVars, resp, prev, inp, out, failed>>

\* subs, files = list_folder(s3, args.bucket, pref)
MainList ==
  /\ pc = "list"
  /\ \/ Raise
     \/ /\ listing' = list_folder(bucket, cur)
        /\ pc' = "put"
        /\ ncalls' = ncalls + 1
        /\ UNCHANGED <<bucket, bucket0, run, args, walk, cur, updated, searchVars,
                       puts, regionVars, resp, prev, inp, out, failed>>

\* render_index_html, put_obj, updated.append; then the loop asks for the next pref
MainPut ==
  /\ pc = "put"
  /\ \/ Raise
     \/ LET key == IndexKey(cur)
            doc == render_index_html(cur, listing.subs, listing.files)
        IN /\ bucket' = put_obj(bucket, key, doc, HTML_CTYPE, HTML_CACHE)
           /\ puts' = Append(puts, [key |-> key, ctype |-> HTML_CTYPE,
                                    cache |-> HTML_CACHE, type |-> doc.type,
                                    body |-> doc])
           /\ updated' = Append(updated, SLASH \o key)
           /\ ncalls' = ncalls + 1
           /\ IF args.full
              THEN pc' = "walk_list" /\ UNCHANGED searchVars
              ELSE AfterLoop
           /\ UNCHANGED <<bucket0, run, args, walk, cur, listing, regionVars, resp, prev, inp, out, failed>>

\* the generator resumes: subs, _ = list_folder(...); stack.extend(subs); next pop
MainWalkList ==
  /\ pc = "walk_list"
  /\ \/ Raise
     \/ LET g == WalkResume(walk, list_folder(bucket, cur).subs)
        IN /\ walk' = g.w
           /\ ncalls' = ncalls + 1
           /\ IF g.found
              THEN cur' = g.pref /\ pc' = "list" /\ UNCHANGED searchVars
              ELSE cur' = cur /\ AfterLoop
           /\ UNCHANGED <<bucket, bucket0, run, args, listing, updated, puts,
                          regionVars, resp, prev, inp, out, failed>>

\* build_search_index: subs, files = list_folder(...); one record per file
SearchList ==
  /\ pc = "search_list"
  /\ \/ Raise
     \/ /\ recs' = recs \o FileRecs(list_folder(bucket, scur).files)
        /\ pc' = "search_walk_list"
        /\ ncalls' = ncalls + 1
        /\ UNCHANGED <<bucket, bucket0, run, args, loopVars, swalk, scur, puts,
                       regionVars, resp, prev, inp, out, failed>>

\* the generator of build_search_index resumes
SearchWalkList ==
  /\ pc = "search_walk_list"
  /\ \/ Raise
     \/ /\ SearchStep(WalkResume(swalk, list_folder(bucket, scur).subs), recs)
        /\ ncalls' = ncalls + 1
        /\ UNCHANGED <<bucket, bucket0, run, args, loopVars, puts, regionVars, resp, prev, inp, out, failed>>

\* put_obj(..., 'search-index.json', sidx, ..., cache='public, max-age=300')
PutJson ==
  /\ pc = "put_json"
  /\ \/ Raise
     \/ /\ bucket' = put_obj(bucket, SEARCH_INDEX_JSON,
                             [type |-> "search_index", recs |-> recs],
                             JSON_CTYPE, JSON_CACHE)
        /\ puts' = Append(puts, [key |-> SEARCH_INDEX_JSON, ctype |-> JSON_CTYPE,
                                 cache |-> JSON_CACHE, type |-> "search_index",
                                 body |-> [type |-> "search_index", recs |-> recs]])
        /\ pc' = "put_search"
        /\ ncalls' = ncalls + 1
        /\ UNCHANGED <<bucket0, run, args, loopVars, searchVars, regionVars, resp, prev, inp, out, failed>>

\* put_obj(..., 'search/index.html', render_search_page(), ...); then "Done"
PutSearch ==
  /\ pc = "put_search"
  /\ \/ Raise
     \/ /\ bucket' = put_obj(bucket, SEARCH_INDEX_HTML, render_search_page,
                             HTML_CTYPE, HTML_CACHE)
        /\ puts' = Append(puts, [key |-> SEARCH_INDEX_HTML, ctype |-> HTML_CTYPE,
                                 cache |-> HTML_CACHE, type |-> "search_page",
                                 body |-> render_search_page])
        /\ pc' = "done"
        /\ ncalls' = ncalls + 1
        /\ UNCHANGED <<bucket0, run, args, loopVars, searchVars, regionVars, resp, prev, inp, out, failed>>

\* the tool is invoked again on the bucket the finished run left
NewRun ==
  /\ pc = "done"
  /\ run < MaxRuns
  /\ run' = run + 1
  /\ args' \in Args
  /\ bucket0' = bucket
  /\ pc' = "main"
  /\ walk' = NoFrame /\ cur' = << >> /\ listing' = NoListing /\ updated' = << >>
  /\ swalk' = NoFrame /\ scur' = << >> /\ recs' = << >>
  /\ puts' = << >> /\ ncalls' = 0 /\ failed' = FALSE
  /\ prev' = [args |-> args, puts |-> puts]
  /\ UNCHANGED <<bucket, regionVars, resp, inp, out>>

\* the steps of one run of main
MainRun ==
  \/ MainStart \/ MainList \/ MainPut \/ MainWalkList
  \/ SearchList \/ SearchWalkList \/ PutJson \/ PutSearch

Next == MainRun \/ NewRun

Spec == Init /\ [][Next]_vars

(* ---------- discover_bucket_region, s3_client_for_bucket ---------- *)
Regions == {"us-east-1", "us-east-2", "us-west-1", "us-west-2", "eu-west-1",
            "eu-central-1", "ap-south-1", "sa-east-1"}
\* what a lookup can answer: a response naming a region, a response naming
\* none (region ""), a ClientError, or an exception of another class
Answers == [kind : {"ok"}, region : Regions \cup {""}]
           \cup [kind : {"ClientError", "OtherError"}, region : {""}]

\* the lookup's answer without "or 'us-east-1'"
RegionAsIs(r) == r

\* ... or 'us-east-1'
RegionOr(r) == IF r # "" THEN r ELSE DEFAULT_REGION
\* except ClientError:
Caught(o) == o.kind = "ClientError"

InitRegion ==
  /\ hb \in Answers /\ gbl \in Answers
  /\ region = "" /\ lookups = << >>
  /\ pc = "head_bucket"
  /\ bucket = << >> /\ bucket0 = << >> /\ run = 1
  /\ args = [prefix |-> ROOT, full |-> FALSE, with_search |-> FALSE]
  /\ walk = NoFrame /\ cur = << >> /\ listing = NoListing /\ updated = << >>
  /\ swalk = NoFrame /\ scur = << >> /\ recs = << >>
  /\ puts = << >> /\ ncalls = 0 /\ failed = FALSE
  /\ resp = << >>
  /\ prev = NoPrev /\ inp = << >> /\ out = << >>

notRegion == <<bucket, bucket0, run, args, loopVars, searchVars, puts, ncalls,
               failed, resp, prev, inp, out, hb, gbl>>

\* r = c.head_bucket(Bucket=bucket)
HeadBucket ==
  /\ pc = "head_bucket"
  /\ lookups' = Append(lookups, "head_bucket")
  /\ \/ hb.kind = "ok" /\ region' = RegionOr(hb.region) /\ pc' = "client"
     \/ hb.kind # "ok" /\ Caught(hb) /\ region' = region /\ pc' = "get_bucket_location"
     \/ hb.kind # "ok" /\ ~Caught(hb) /\ region' = region /\ pc' = "aborted"
  /\ UNCHANGED notRegion

\* r = c.get_bucket_location(Bucket=bucket)
GetBucketLocation ==
  /\ pc = "get_bucket_location"
  /\ lookups' = Append(lookups, "get_bucket_location")
  /\ \/ gbl.kind = "ok" /\ region' = RegionOr(gbl.region) /\ pc' = "client"
     \/ gbl.kind # "ok" /\ Caught(gbl) /\ region' = DEFAULT_REGION /\ pc' = "client"
     \/ gbl.kind # "ok" /\ ~Caught(gbl) /\ region' = region /\ pc' = "aborted"
  /\ UNCHANGED notRegion

NextRegion == HeadBucket \/ GetBucketLocation
SpecRegion == InitRegion /\ [][NextRegion]_vars

(* ---------- walk_prefixes over an arbitrary client ---------- *)
\* walk_prefixes and list_folder take the client as a parameter; here the
\* client answers any set of at most MaxDeg common prefixes for each prefix
Pool == {ROOT, <<"a","/">>, <<"b","/">>}
InitWalk ==
  /\ resp \in [Pool -> { S \in SUBSET Pool : Cardinality(S) <= MaxDeg }]
  /\ \E start \in Pool :
       /\ args = [prefix |-> start, full |-> TRUE, with_search |-> FALSE]
       /\ walk = WalkFrame(start)
  /\ pc = "walk"
  /\ bucket = << >> /\ bucket0 = << >> /\ run = 1
  /\ cur = << >> /\ listing = NoListing /\ updated = << >>
  /\ swalk = NoFrame /\ scur = << >> /\ recs = << >>
  /\ puts = << >> /\ ncalls = 0 /\ failed = FALSE
  /\ hb = NoOutcome /\ gbl = NoOutcome /\ region = "" /\ lookups = << >>
  /\ prev = NoPrev /\ inp = << >> /\ out = << >>

notWalk == <<bucket, bucket0, run, args, listing, updated, searchVars, puts,
             ncalls, failed, regionVars, resp, prev, inp, out>>

\* first next() of the generator
TraverseStart ==
  /\ pc = "walk"
  /\ LET g == WalkNext(walk)
     IN walk' = g.w /\ cur' = g.pref /\ pc' = "yielded"
  /\ UNCHANGED notWalk

\* later next(): list the yielded prefix, extend the stack, pop
TraverseResume ==
  /\ pc = "yielded"
  /\ Len(walk.yielded) <= MaxYield
  /\ LET g == WalkResume(walk, sorted(resp[cur]))
     IN /\ walk' = g.w
        /\ IF g.found THEN cur' = g.pref /\ pc' = "yielded"
           ELSE cur' = cur /\ pc' = "walk_end"
  /\ UNCHANGED notWalk

NextWalk == TraverseStart \/ TraverseResume
SpecWalk == InitWalk /\ [][NextWalk]_vars

(* ---------- main and the traversal as one sequential process ---------- *)
\* the interpreter runs the single thread of the program step after step: a
\* step that can be taken is eventually taken
\* a run of main on any bucket over the user keys and the keys an earlier run
\* can have left, or a traversal over any client answers
InitLive == InitMain(UserKeys \cup {SEARCH_INDEX_JSON, SEARCH_INDEX_HTML}) \/ InitWalk
NextLive == MainRun \/ NextWalk
SpecLive == InitLive /\ [][NextLive]_vars /\ WF_vars(NextLive)

(* ---------- helpers applied on their own ---------- *)
\* every variable of main, of region discovery and of the traversal at rest
Idle ==
  /\ bucket = << >> /\ bucket0 = << >> /\ run = 1
  /\ args = [prefix |-> ROOT, full |-> FALSE, with_search |-> FALSE]
  /\ walk = NoFrame /\ cur = << >> /\ listing = NoListing /\ updated = << >>
  /\ swalk = NoFrame /\ scur = << >> /\ recs = << >>
  /\ puts = << >> /\ ncalls = 0 /\ failed = FALSE
  /\ hb = NoOutcome /\ gbl = NoOutcome /\ region = "" /\ lookups = << >>
  /\ resp = << >> /\ prev = NoPrev
notHelper == <<bucket, bucket0, run, args, loopVars, searchVars, puts, ncalls,
               failed, regionVars, resp, prev>>

(* ---------- crumbs ---------- *)
\* s.split('/')
RECURSIVE split(_)
split(s) ==
  IF ~HasSlash(s) THEN <<s>>
  ELSE LET i == CHOOSE j \in 1..Len(s) : s[j] = "/" /\ \A l \in 1..(j-1) : s[l] # "/"
       IN <<SubSeq(s, 1, i - 1)>> \o split(SubSeq(s, i + 1, Len(s)))

\* sep.join(parts)
RECURSIVE join(_, _)
join(sep, parts) ==
  IF parts = << >> THEN << >>
  ELSE IF Len(parts) = 1 THEN parts[1]
  ELSE parts[1] \o sep \o join(sep, Tail(parts))

\* '/' + p + '/' in place of '/' + '/'.join(acc) + '/'
CrumbHrefLast(acc) == SLASH \o acc[Len(acc)] \o SLASH

\* '/' + '/'.join(acc) + '/'
CrumbHref(acc) == SLASH \o join(SLASH, acc) \o SLASH

crumbs(prefix) ==
  LET parts == SelectSeq(split(strip(prefix)), LAMBDA p : p # << >>)
  IN << <<HOME, SLASH>> >>
     \o [i \in 1..Len(parts) |-> <<parts[i], CrumbHref(SubSeq(parts, 1, i))>>]

RECURSIVE StringsUpTo(_, _)
StringsUpTo(chars, n) ==
  IF n = 0 THEN { << >> }
  ELSE LET S == StringsUpTo(chars, n - 1)
       IN S \cup { Append(x, c) : x \in S, c \in chars }
ABC_PREFIX == <<"a","/","b","/","c","/">>
CrumbInputs == StringsUpTo({"a", "b", "/"}, MaxLen) \cup {ABC_PREFIX}

InitCrumbs ==
  /\ Idle
  /\ inp \in CrumbInputs /\ out = << >>
  /\ pc = "crumbs"

Crumbs ==
  /\ pc = "crumbs"
  /\ out' = crumbs(inp)
  /\ pc' = "crumbs_done"
  /\ UNCHANGED <<inp, notHelper>>

NextCrumbs == Crumbs
SpecCrumbs == InitCrumbs /\ [][NextCrumbs]_vars

(* ---------- file rows of render_index_html, file records with urls ---------- *)
LOWERS == <<"a","b","c","d","e","f","g","h","i","j","k","l","m","n","o","p","q",
            "r","s","t","u","v","w","x","y","z">>
UPPERS == <<"A","B","C","D","E","F","G","H","I","J","K","L","M","N","O","P","Q",
            "R","S","T","U","V","W","X","Y","Z">>
DIGITS == {"0", "1", "2", "3", "4", "5", "6", "7", "8", "9"}
LowerChar(c) ==
  IF \E i \in 1..26 : UPPERS[i] = c THEN LOWERS[CHOOSE i \in 1..26 : UPPERS[i] = c] ELSE c
UpperChar(c) ==
  IF \E i \in 1..26 : LOWERS[i] = c THEN UPPERS[CHOOSE i \in 1..26 : LOWERS[i] = c] ELSE c
lower(s) == [i \in 1..Len(s) |-> LowerChar(s[i])]
upper(s) == [i \in 1..Len(s) |-> UpperChar(s[i])]
HasDot(s) == \E i \in 1..Len(s) : s[i] = "."

\* n.split('.', 1)[1] in place of n.rsplit('.', 1)[1]
AfterFirstDot(n) ==
  LET i == CHOOSE j \in 1..Len(n) : n[j] = "." /\ \A l \in 1..(j-1) : n[l] # "."
  IN SubSeq(n, i + 1, Len(n))

\* n.rsplit('.', 1)[1]
AfterLastDot(n) ==
  LET i == CHOOSE j \in 1..Len(n) : n[j] = "." /\ \A l \in (j+1)..Len(n) : n[l] # "."
  IN SubSeq(n, i + 1, Len(n))

BADGE_MAP(ext) ==
  CASE ext = <<"z","i","p">> -> "primary"
    [] ext = <<"t","i","f">> -> "info"
    [] ext = <<"t","i","f","f">> -> "info"
    [] ext = <<"g","e","o","t","i","f","f">> -> "info"
    [] ext = <<"c","s","v">> -> "success"
    [] ext = <<"p","d","f">> -> "danger"
    [] ext = <<"j","s","o","n">> -> "dark"
    [] ext = <<"g","e","o","j","s","o","n">> -> "dark"
    [] ext = <<"x","m","l">> -> "secondary"
    [] ext = <<"g","d","b">> -> "warning"
    [] ext = <<"f","g","d","b">> -> "warning"
    [] ext = <<"s","h","p">> -> "warning"
    [] ext = <<"d","b","f">> -> "warning"
    [] ext = <<"p","r","j">> -> "warning"
    [] ext = <<"s","h","x">> -> "warning"
    [] ext = <<"j","p","g">> -> "info"
    [] ext = <<"j","p","e","g">> -> "info"
    [] ext = <<"p","n","g">> -> "info"
    [] OTHER -> "secondary"

\* html.escape(s): & < > " ' are replaced by entities
EscapeChar(c) ==
  CASE c = "&" -> <<"&","a","m","p",";">>
    [] c = "<" -> <<"&","l","t",";">>
    [] c = ">" -> <<"&","g","t",";">>
    [] c = "\"" -> <<"&","q","u","o","t",";">>
    [] c = "'" -> <<"&","#","x","2","7",";">>
    [] OTHER -> <<c>>
RECURSIVE html_escape(_)
html_escape(s) == IF s = << >> THEN << >> ELSE EscapeChar(Head(s)) \o html_escape(Tail(s))

\* the badge of ext_label: its text and its colour
ext_label(name) ==
  LET n == lower(name)
      ext == IF HasDot(n) THEN AfterLastDot(n) ELSE << >>
      lbl == CASE ext = <<"t","i","f">> -> <<"T","I","F">>
               [] ext = <<"t","i","f","f">> -> <<"T","I","F","F">>
               [] ext = <<"g","e","o","t","i","f","f">> -> <<"G","e","o","T","I","F","F">>
               [] ext = <<"g","e","o","j","s","o","n">> -> <<"G","E","O","J","S","O","N">>
               [] OTHER -> IF ext # << >> THEN upper(ext) ELSE <<"F","I","L","E">>
  IN [label |-> html_escape(lbl), color |-> BADGE_MAP(ext)]

\* urllib.parse.quote(s, safe='/'): letters, digits, '_', '.', '-', '~' and
\* '/' are kept, any other character becomes %XX
Unreserved(c) ==
  \/ \E i \in 1..26 : LOWERS[i] = c \/ UPPERS[i] = c
  \/ c \in DIGITS \cup {"_", ".", "-", "~"}
PercentEncoded(c) ==
  CASE c = " " -> <<"%","2","0">>
    [] c = "#" -> <<"%","2","3">>
    [] c = "%" -> <<"%","2","5">>
    [] c = "&" -> <<"%","2","6">>
    [] c = ":" -> <<"%","3","A">>
RECURSIVE quote(_)
quote(s) ==
  IF s = << >> THEN << >>
  ELSE (IF Unreserved(Head(s)) \/ Head(s) = "/" THEN <<Head(s)>> ELSE PercentEncoded(Head(s)))
       \o quote(Tail(s))

\* fL = lambda s: b + '/' + quote(s, safe='/'), with b = (base_url or '').rstrip('/')
fL(base_url, key) == rstrip(base_url) \o SLASH \o quote(key)

\* one <li> of filesh: the link, the name shown, the badge
FileRow(base_url, key) ==
  LET u == fL(base_url, key)
      n == LastSegment(key)
  IN [kind |-> "file", url |-> u, href |-> html_escape(u), name |-> html_escape(n),
      badge |-> ext_label(n)]
NO_FILES == [kind |-> "placeholder", text |-> "(no files)"]
\* filesh = ''.join([... for f in files]) or '<li ...>(no files)</li>'
filesh(base_url, files) ==
  LET rows == [i \in 1..Len(files) |-> FileRow(base_url, files[i])]
  IN IF rows # << >> THEN rows ELSE <<NO_FILES>>

\* the file record of build_search_index with its url and ext
FileRecFull(base_url, key) ==
  LET b == rstrip(base_url)
      name == LastSegment(key)
      path == SLASH \o key
  IN [type |-> "file", name |-> name, path |-> path,
      url |-> IF b # << >> THEN b \o path ELSE path,
      ext |-> IF HasDot(name) THEN upper(AfterLastDot(lower(name))) ELSE << >>]
RECURSIVE FileRecsFull(_, _)
FileRecsFull(base_url, files) ==
  IF files = << >> THEN << >>
  ELSE (IF FileExcluded(Head(files)) THEN << >>
        ELSE <<FileRecFull(base_url, Head(files))>>)
       \o FileRecsFull(base_url, Tail(files))

\* file keys and base URLs given to the renderer
F_acsv == <<"p","/","a",".","c","s","v">>
F_btif == <<"p","/","b",".","t","i","f">>
F_BTIF == <<"p","/","B",".","T","I","F">>
F_readme == <<"p","/","R","E","A","D","M","E">>
F_geotiff == <<"p","/","c",".","g","e","o","t","i","f","f">>
F_dot == <<"p","/","d",".">>
F_targz == <<"p","/","e",".","t",".","g","z">>
F_space == <<"p","/","a"," ","b",".","c","s","v">>
FileKeys == {F_acsv, F_btif, F_BTIF, F_readme, F_geotiff, F_dot, F_targz, F_space}
BaseUrls == {<< >>, <<"h",":","/","/","x">>, <<"h",":","/","/","x","/">>}

InitRender ==
  /\ Idle
  /\ \E b \in BaseUrls, S \in SUBSET FileKeys :
       /\ Cardinality(S) <= MaxFiles
       /\ inp = [base_url |-> b, files |-> sorted(S)]
  /\ out = [filesh |-> << >>, recs |-> << >>]
  /\ pc = "render"

RenderFiles ==
  /\ pc = "render"
  /\ out' = [out EXCEPT !.filesh = filesh(inp.base_url, inp.files)]
  /\ pc' = "index"
  /\ UNCHANGED <<inp, notHelper>>

IndexFiles ==
  /\ pc = "index"
  /\ out' = [out EXCEPT !.recs = FileRecsFull(inp.base_url, inp.files)]
  /\ pc' = "render_done"
  /\ UNCHANGED <<inp, notHelper>>

NextRender == RenderFiles \/ IndexFiles
SpecRender == InitRender /\ [][NextRender]_vars

(* ====================== properties ====================== *)
NoDuplicates(q) == \A i, j \in 1..Len(q) : q[i] = q[j] => i = j

\* the prefixes reachable from start through the subfolders list_folder returns
RECURSIVE Closure(_, _)
Closure(b, S) ==
  LET T == S \cup UNION { SeqToSet(list_folder(b, p).subs) : p \in S }
  IN IF T = S THEN S ELSE Closure(b, T)
Reachable(b, start) == Closure(b, {start})

\* the for loop of main is over; build_search_index has returned
LoopDone == pc \in {"search_list", "search_walk_list", "put_json", "put_search", "done"}
IndexBuilt == pc \in {"put_json", "put_search"}

\* C1: a traversal by walk_prefixes yields only prefixes reachable from the
\* start prefix, the start prefix first, and once it has ended (the walk of
\* main under --full, the walk of build_search_index) it has yielded exactly
\* the set of prefixes reachable from the start prefix.
C1_WalkYieldsReachable ==
  LET R == Reachable(bucket0, args.prefix)
  IN /\ SeqToSet(walk.yielded) \subseteq R
     /\ SeqToSet(swalk.yielded) \subseteq R
     /\ (walk.yielded # << >> => walk.yielded[1] = args.prefix)
     /\ (swalk.yielded # << >> => swalk.yielded[1] = args.prefix)
     /\ (args.full /\ LoopDone => SeqToSet(walk.yielded) = R)
     /\ (IndexBuilt => SeqToSet(swalk.yielded) = R)

\* C1 witness: a full run from the root of a bucket with folders two levels
\* deep and a sibling folder has finished both walks.
C1_Witness ==
  /\ pc = "put_json" /\ args.full /\ args.prefix = ROOT
  /\ {ROOT, <<"a","/">>, <<"a","/","b","/">>, excluded_folder \o SLASH}
       \subseteq SeqToSet(walk.yielded)
  /\ SeqToSet(swalk.yielded) = SeqToSet(walk.yielded)

\* a prefix that two listed prefixes both answered as a subfolder
PushedTwice(p) ==
  \E q1, q2 \in SeqToSet(walk.listed) : q1 # q2 /\ p \in resp[q1] /\ p \in resp[q2]

\* C2: during one traversal every prefix is yielded at most once and listed
\* at most once, whatever subfolders the listings answer and however often a
\* prefix is pushed.
C2_YieldedOnce == NoDuplicates(walk.yielded) /\ NoDuplicates(walk.listed)

\* C2 witness: the traversal has ended, and a prefix it yielded had been
\* pushed by the listings of two different prefixes.
C2_Witness ==
  /\ pc = "walk_end"
  /\ \E p \in SeqToSet(walk.yielded) : PushedTwice(p)

\* total number of files list_folder returns over the prefixes of S
RECURSIVE FileCount(_, _)
FileCount(b, S) ==
  IF S = {} THEN 0
  ELSE LET p == CHOOSE x \in S : TRUE
       IN Len(list_folder(b, p).files) + FileCount(b, S \ {p})

\* C3 as claimed: the list build_search_index returns has one record per
\* reachable prefix plus one per file listed in those prefixes.
C3_Claim ==
  pc = "put_json" =>
    LET R == Reachable(bucket0, args.prefix)
    IN Len(recs) = Cardinality(R) + FileCount(bucket, R)

\* files of prefix p that do not lie under the top-level logo folder
KeptFiles(b, p) ==
  { k \in SeqToSet(list_folder(b, p).files) : ~startswith(k, excluded_folder \o SLASH) }
RECURSIVE KeptFileCount(_, _)
KeptFileCount(b, S) ==
  IF S = {} THEN 0
  ELSE LET p == CHOOSE x \in S : TRUE
       IN Cardinality(KeptFiles(b, p)) + KeptFileCount(b, S \ {p})
\* reachable prefixes whose last path segment is not the logo folder's name
IndexedPrefixes(b, start) ==
  { p \in Reachable(b, start) : base_folder(p) # excluded_folder }

\* C3: the list build_search_index returns has one folder record per reachable
\* prefix whose last segment is not 'twdblogo', plus one file record per file
\* listed in those prefixes whose key does not start with 'twdblogo/'.
C3_RecordCount ==
  pc = "put_json" =>
    LET I == IndexedPrefixes(bucket0, args.prefix)
    IN Len(recs) = Cardinality(I) + KeptFileCount(bucket, I)

\* C3 witness: the index of a bucket with indexed files, a skipped logo
\* folder and skipped files under 'twdblogo/' has been built.
C3_Witness ==
  /\ pc = "put_json" /\ args.prefix = ROOT
  /\ {K_af, K_logo, K_logosub, K_alogo} \subseteq DOMAIN bucket
  /\ Len(recs) >= 5
  /\ \E i \in 1..Len(recs) : recs[i].type = "file"

\* put_object calls of the for loop of main
FolderPagePuts == SelectSeq(puts, LAMBDA e : e.type = "folder_page")
FolderPageKeys == [i \in 1..Len(FolderPagePuts) |-> FolderPagePuts[i].key]

\* C4: once the loop of main is over, with --full the folder pages uploaded
\* are at exactly the keys p + 'index.html' for p reachable from --prefix,
\* each uploaded once; without --full exactly one folder page was uploaded,
\* at <--prefix>index.html.
C4_FolderPageKeys ==
  LoopDone =>
    IF args.full
    THEN /\ SeqToSet(FolderPageKeys)
              = { p \o INDEX_HTML : p \in Reachable(bucket0, args.prefix) }
         /\ NoDuplicates(FolderPageKeys)
    ELSE FolderPageKeys = <<args.prefix \o INDEX_HTML>>

\* C4 witness: a --full run that uploaded at least four folder pages is done.
C4_Witness == pc = "done" /\ args.full /\ Len(FolderPagePuts) >= 4

\* folder pages uploaded by the current run, as stored
Pages ==
  { bucket[e.key].body :
      e \in { x \in SeqToSet(FolderPagePuts) : bucket[x.key].body.type = "folder_page" } }
PagePrefixes == { pg.prefix : pg \in Pages }
PageOf(p) == CHOOSE pg \in Pages : pg.prefix = p
FolderRecPrefixes ==
  { SubSeq(recs[i].path, 2, Len(recs[i].path)) : i \in { j \in 1..Len(recs) : recs[j].type = "folder" } }
FileRecKeys ==
  { SubSeq(recs[i].path, 2, Len(recs[i].path)) : i \in { j \in 1..Len(recs) : recs[j].type = "file" } }
ImmediatelyUnder(k, p) == startswith(k, p) /\ ~HasSlash(Remainder(k, p))
FileRecKeysUnder(p) == { k \in FileRecKeys : ImmediatelyUnder(k, p) }

\* C5 as claimed: in a --full run a prefix has an uploaded page iff it has a
\* folder record, and the files on its page are the files with file records
\* under it.
C5_Claim ==
  pc = "put_json" /\ args.full =>
    /\ PagePrefixes = FolderRecPrefixes
    /\ \A p \in PagePrefixes : SeqToSet(PageOf(p).files) = FileRecKeysUnder(p)

\* C5: in a --full run a prefix has a folder record iff it has an uploaded
\* page and its last segment is not 'twdblogo'; the file records under a
\* prefix with a folder record are the files on its page whose key does not
\* start with 'twdblogo/'; a prefix without folder record has no file records.
C5_PagesMatchIndex ==
  pc = "put_json" /\ args.full =>
    /\ FolderRecPrefixes = { p \in PagePrefixes : base_folder(p) # excluded_folder }
    /\ \A p \in PagePrefixes :
         FileRecKeysUnder(p) =
           IF base_folder(p) # excluded_folder
           THEN { k \in SeqToSet(PageOf(p).files) : ~startswith(k, excluded_folder \o SLASH) }
           ELSE {}

\* C5 witness: a --full run from the root has built the index of a bucket
\* with a page that shows files, a logo folder and a nested folder.
C5_Witness ==
  /\ pc = "put_json" /\ args.full /\ args.prefix = ROOT
  /\ Cardinality(PagePrefixes) >= 4
  /\ FolderRecPrefixes # PagePrefixes
  /\ \E p \in FolderRecPrefixes : FileRecKeysUnder(p) # {}

\* a key of the form <folder prefix>index.html, the key main uploads a page to
IndexPageKey(k) ==
  /\ endswith(k, INDEX_HTML)
  /\ LET q == SubSeq(k, 1, Len(k) - Len(INDEX_HTML))
     IN q = ROOT \/ endswith(q, SLASH) \/ q \in StartPrefixes

\* C6 as claimed: the files list_folder returns for a prefix are exactly the
\* objects immediately under it that are neither directory markers nor keys
\* of the form <folder prefix>index.html.
C6_Claim ==
  pc = "put" =>
    SeqToSet(listing.files)
      = { k \in Contents(bucket, cur) : ~endswith(k, SLASH) /\ ~IndexPageKey(k) }

\* objects in the bucket at the start of the run that the tool had uploaded
ToolKeys == { k \in DOMAIN bucket0 : bucket0[k].body.type # "data" }

\* C7 as claimed: in a run that follows an earlier run, no object the tool
\* uploaded is a file entry of a listing, of a rendered page or of the index.
C7_Claim ==
  run > 1 =>
    \A k \in ToolKeys :
      /\ k \notin SeqToSet(listing.files)
      /\ k \notin FileRecKeys
      /\ \A pg \in Pages : k \notin SeqToSet(pg.files)

\* put_object calls of the search artifacts
SearchPuts == SelectSeq(puts, LAMBDA e : e.type \in {"search_index", "search_page"})
SearchPutKeys == [i \in 1..Len(SearchPuts) |-> SearchPuts[i].key]

\* C8 as claimed: a finished run has uploaded the search artifacts iff
\* --with-search was given, and otherwise only folder pages.
C8_Claim ==
  pc = "done" =>
    /\ (SearchPuts # << >>) <=> args.with_search
    /\ (~args.with_search => FolderPagePuts = puts)

\* C8: a finished run has uploaded the search artifacts, at the fixed keys
\* 'search-index.json' and 'search/index.html' whatever --prefix is, iff
\* --with-search or --full was given; a run with neither flag uploaded only
\* folder pages.
C8_SearchArtifacts ==
  pc = "done" =>
    IF args.with_search \/ args.full
    THEN SearchPutKeys = <<SEARCH_INDEX_JSON, SEARCH_INDEX_HTML>>
    ELSE SearchPuts = << >> /\ FolderPagePuts = puts

\* C8 witness: a run with --full and without --with-search, from a prefix
\* other than the root, is done and has uploaded both search artifacts.
C8_Witness ==
  /\ pc = "done" /\ args.full /\ ~args.with_search /\ args.prefix # ROOT
  /\ SearchPutKeys = <<SEARCH_INDEX_JSON, SEARCH_INDEX_HTML>>

\* C9: once a listing or upload call has raised, main is aborted: no step of
\* main is possible any more (no further call, no retry, no 'Done'), and every
\* upload that succeeded before is in the bucket as uploaded.
C9_AbortOnFailure ==
  failed =>
    /\ pc = "aborted"
    /\ ~ENABLED Next
    /\ \A i \in 1..Len(puts) :
         /\ puts[i].key \in DOMAIN bucket
         /\ bucket[puts[i].key].body.type = puts[i].type

\* C9 witness: a call raised after two uploads had succeeded.
C9_Witness == failed /\ pc = "aborted" /\ Len(puts) >= 2 /\ ncalls >= 5

\* C10 as claimed: region discovery never aborts the run and always ends
\* with a non-empty region.
C10_Claim == pc # "aborted" /\ (pc = "client" => region # "")

\* C10: head_bucket is tried first and get_bucket_location only after
\* head_bucket raised ClientError; the run aborts only when a lookup raised
\* an exception that is not a ClientError; otherwise the region is the one
\* the answering lookup named, or 'us-east-1' when it named none or when both
\* lookups raised ClientError, and it is never empty.
C10_RegionFallback ==
  /\ lookups \in {<< >>, <<"head_bucket">>, <<"head_bucket", "get_bucket_location">>}
  /\ (Len(lookups) = 2 => hb.kind = "ClientError")
  /\ (pc = "aborted" =>
        \/ lookups = <<"head_bucket">> /\ hb.kind = "OtherError"
        \/ Len(lookups) = 2 /\ gbl.kind = "OtherError")
  /\ (pc = "client" =>
        /\ region # ""
        /\ \/ /\ lookups = <<"head_bucket">> /\ hb.kind = "ok"
              /\ region = (IF hb.region = "" THEN "us-east-1" ELSE hb.region)
           \/ /\ Len(lookups) = 2 /\ gbl.kind = "ok"
              /\ region = (IF gbl.region = "" THEN "us-east-1" ELSE gbl.region)
           \/ /\ Len(lookups) = 2 /\ gbl.kind = "ClientError"
              /\ region = "us-east-1")

\* C10 witness: both lookups raised ClientError and the client is created
\* for the default region.
C10_Witness ==
  /\ pc = "client" /\ hb.kind = "ClientError" /\ gbl.kind = "ClientError"
  /\ lookups = <<"head_bucket", "get_bucket_location">> /\ region = "us-east-1"

\* the uploads of a run: which key received which content
Uploads(ps) == { <<ps[i].key, ps[i].body>> : i \in 1..Len(ps) }

\* C11 as claimed: a --full run that follows a finished run with the same
\* arguments uploads the same keys with the same contents as that run did,
\* and visits the same prefixes.
C11_Claim ==
  run > 1 /\ pc = "done" /\ args.full /\ prev.args = args =>
    Uploads(puts) = Uploads(prev.puts)

\* C12: the two traversals of a --full run, the one main iterates over and
\* the one of build_search_index, start from the same prefix and yield the
\* same set of prefixes; the folder pages uploaded between them (which leave
\* the bucket as it was when they rewrite pages of identical content) do not
\* change the result.
C12_SameTraversal ==
  args.full /\ IndexBuilt => SeqToSet(swalk.yielded) = SeqToSet(walk.yielded)

\* C12 witness: both traversals of a --full run have ended, they yielded
\* three prefixes, and the bucket is still exactly the one the run started on.
C12_Witness ==
  /\ args.full /\ pc = "put_json" /\ run > 1
  /\ bucket = bucket0
  /\ Cardinality(SeqToSet(walk.yielded)) >= 3
  /\ Len(swalk.yielded) = Len(walk.yielded)

\* C13: on an empty bucket a --full run from the root lists no subfolder and
\* no file for the root, its traversals yield the root prefix "" and nothing
\* else, it uploads exactly one folder page, at key 'index.html', and its
\* search index holds the root's folder record only.
C13_EmptyBucket ==
  DOMAIN bucket0 = {} /\ args.full /\ args.prefix = ROOT =>
    /\ (pc = "put" => listing = [subs |-> << >>, files |-> << >>])
    /\ (LoopDone => /\ walk.yielded = << << >> >>
                    /\ walk.stack = << >>
                    /\ FolderPageKeys = <<INDEX_HTML>>
                    /\ FolderPagePuts[1].body.folders = << >>
                    /\ FolderPagePuts[1].body.files = << >>)
    /\ (IndexBuilt => /\ swalk.yielded = << << >> >>
                      /\ Len(recs) = 1 /\ recs[1].type = "folder"
                      /\ recs[1].path = <<"/">>)

\* C13 witness: a --full run from the root of an empty bucket is done.
C13_Witness ==
  /\ DOMAIN bucket0 = {} /\ args.full /\ args.prefix = ROOT /\ pc = "done"
  /\ Len(puts) = 3

\* C14: every upload of a run, and the object it leaves in the bucket,
\* carries the Cache-Control of its artifact type: folder pages and the search
\* page are uploaded as text/html with max-age=60, search-index.json as
\* application/json with max-age=300; the HTML TTL is the shorter one.
C14_CacheByType ==
  /\ \A i \in 1..Len(puts) :
       LET e == puts[i]
           o == bucket[e.key]
       IN /\ e.type \in {"folder_page", "search_page", "search_index"}
          /\ (e.type \in {"folder_page", "search_page"} =>
                /\ e.cache = [directive |-> "public", max_age |-> 60]
                /\ e.ctype = "text/html; charset=utf-8")
          /\ (e.type = "search_index" =>
                /\ e.key = SEARCH_INDEX_JSON
                /\ e.cache = [directive |-> "public", max_age |-> 300]
                /\ e.ctype = "application/json; charset=utf-8")
          /\ (o.body = e.body => o.cache = e.cache /\ o.ctype = e.ctype)
  /\ HTML_CACHE.max_age < JSON_CACHE.max_age

\* C14 witness: a finished run has uploaded folder pages, the search index
\* and the search page.
C14_Witness ==
  /\ pc = "done"
  /\ {"folder_page", "search_index", "search_page"}
       \subseteq { puts[i].type : i \in 1..Len(puts) }
  /\ Len(FolderPagePuts) >= 2

\* the non-empty path segments of s, by position: a segment starts at a
\* character that is not '/' and is first or preceded by '/'
SegStarts(s) == { i \in 1..Len(s) : s[i] # "/" /\ (i = 1 \/ s[i-1] = "/") }
SegEnd(s, i) ==
  CHOOSE j \in i..Len(s) :
    /\ \A l \in i..j : s[l] # "/"
    /\ (j = Len(s) \/ s[j+1] = "/")
Segment(s, k) ==
  LET i == CHOOSE x \in SegStarts(s) : Cardinality({ y \in SegStarts(s) : y < x }) = k - 1
  IN SubSeq(s, i, SegEnd(s, i))

\* C15: for a prefix with n non-empty segments s1..sn, crumbs returns n+1
\* crumbs: ('Home', '/'), then for each i the crumb (si, href) whose href is
\* the previous crumb's href followed by si and '/', that is '/s1/.../si/';
\* 'a/b/c/' gives Home, a, b, c with hrefs /, /a/, /a/b/, /a/b/c/.
C15_Crumbs ==
  pc = "crumbs_done" =>
    LET n == Cardinality(SegStarts(inp))
    IN /\ Len(out) = n + 1
       /\ out[1] = <<HOME, <<"/">> >>
       /\ \A k \in 1..n :
            /\ out[k+1][1] = Segment(inp, k)
            /\ out[k+1][2] = out[k][2] \o Segment(inp, k) \o <<"/">>
       /\ (inp = ABC_PREFIX =>
             out = << <<HOME, <<"/">> >>,
                      <<<<"a">>, <<"/","a","/">> >>,
                      <<<<"b">>, <<"/","a","/","b","/">> >>,
                      <<<<"c">>, <<"/","a","/","b","/","c","/">> >> >>)

\* C15 witness: crumbs has returned four crumbs for 'a/b/c/'.
C15_Witness == pc = "crumbs_done" /\ inp = ABC_PREFIX /\ Len(out) = 4

\* the badge texts the listing of SpecRender is expected to show, by file
ExpectedLabel(key) ==
  CASE key = F_acsv -> <<"C","S","V">>
    [] key = F_btif -> <<"T","I","F">>
    [] key = F_BTIF -> <<"T","I","F">>
    [] key = F_readme -> <<"F","I","L","E">>
    [] key = F_geotiff -> <<"G","e","o","T","I","F","F">>
    [] key = F_dot -> <<"F","I","L","E">>
    [] key = F_targz -> <<"G","Z">>
    [] key = F_space -> <<"C","S","V">>

\* C16: the file list of a rendered page has one file row per file entry, in
\* the order given, each with the file's name and the badge text of its
\* extension (a.csv 'CSV', b.tif 'TIF', no extension 'FILE'); for no files it
\* has no file row and the single '(no files)' placeholder.
C16_FileRows ==
  pc \in {"index", "render_done"} =>
    LET rows == SelectSeq(out.filesh, LAMBDA r : r.kind = "file")
    IN /\ Len(rows) = Len(inp.files)
       /\ \A i \in 1..Len(rows) :
            /\ rows[i].name = SubSeq(inp.files[i], 3, Len(inp.files[i]))
            /\ rows[i].badge.label = ExpectedLabel(inp.files[i])
       /\ IF inp.files = << >>
          THEN out.filesh = <<[kind |-> "placeholder", text |-> "(no files)"]>>
          ELSE out.filesh = rows

\* C16 witness: a page with the two files a.csv and b.tif has been rendered
\* with the badges CSV and TIF.
C16_Witness ==
  /\ pc = "render_done" /\ inp.files = <<F_acsv, F_btif>>
  /\ Len(out.filesh) = 2
  /\ out.filesh[1].badge.label = <<"C","S","V">>
  /\ out.filesh[2].badge.label = <<"T","I","F">>

\* C19 as claimed: the URL a folder page links for a file is the same string
\* as the url of the file's record in the search index.
C19_Claim ==
  pc = "render_done" =>
    \A i \in 1..Len(inp.files) : out.filesh[i].url = out.recs[i].url

\* C18: in a run that builds the search artifacts, the search page is uploaded
\* to 'search/index.html' after every folder page of the run, and the object
\* the finished run leaves at 'search/index.html' is the search page, not a
\* folder listing, also when 'search/' was a visited prefix.
C18_SearchPageLast ==
  LET SearchKey == <<"s","e","a","r","c","h","/","i","n","d","e","x",".","h","t","m","l">>
  IN /\ \A j \in 1..Len(puts) :
          puts[j].type = "search_page" =>
            /\ puts[j].key = SearchKey
            /\ \A i \in 1..Len(puts) : puts[i].type = "folder_page" => i < j
     /\ pc = "done" /\ SearchRequested(args) =>
          /\ puts # << >> /\ puts[Len(puts)].type = "search_page"
          /\ SearchKey \in DOMAIN bucket
          /\ bucket[SearchKey].body.type = "search_page"

\* C18 witness: a finished run visited 'search/', uploaded its folder page to
\* 'search/index.html' and then the search page to the same key.
C18_Witness ==
  /\ pc = "done"
  /\ \E i, j \in 1..Len(puts) :
       /\ i < j
       /\ puts[i].type = "folder_page" /\ puts[i].key = SEARCH_INDEX_HTML
       /\ puts[j].type = "search_page" /\ puts[j].key = SEARCH_INDEX_HTML
  /\ bucket[SEARCH_INDEX_HTML].body.type = "search_page"

\* C17: walk_prefixes terminates for every finite set of client answers (its
\* work stack becomes empty and the generator ends), and a run of main in
\* which no storage call fails reaches its final 'Done' stage.
C17_Terminates ==
  /\ (pc = "walk") ~> (pc = "walk_end" /\ walk.stack = << >>)
  /\ (pc = "main") ~> (pc = "done" \/ failed)

\* C17 witness: a --full run over a bucket with nested prefixes and an earlier
\* run's search page has emptied the work stacks of its two traversals and
\* reached 'Done' with no failure.
C17_Witness ==
  /\ pc = "done" /\ SEARCH_INDEX_HTML \in DOMAIN bucket0 /\ args.full /\ ~failed
  /\ walk.stack = << >> /\ Len(walk.yielded) >= 3
  /\ swalk.stack = << >>

====
